---- MODULE Spec2Model ----
(***************************************************************************)
(* Nearest-polling-unit resolution pipeline of src/app.py:                 *)
(* find_nearest_polling_units (geodesic pre-filter, one routing request    *)
(* per candidate, sort by road distance, head(n)) and                      *)
(* get_road_route_and_distance (the routing call).                         *)
(*                                                                         *)
(* A data frame is a sequence of rows; a row is a function from column     *)
(* names to values.  The dataset is a frame with columns id, lat, lon      *)
(* (id is the row's index label; name/ward/lga/state are carried along     *)
(* unchanged by every operation and are left out).                         *)
(***************************************************************************)
EXTENDS Integers, Sequences, FiniteSets, TLC

VARIABLES
    polling_units,  \* the module-level frame loaded once (app.py:32)
    pc,             \* where the script run is: idle, refining, blocked, done, aborted
    query,          \* arguments of the running call: [lat, lon, n]
    pu,             \* the local frame pu of find_nearest_polling_units
    routes,         \* the local list routes: tuples (idx, dist_m, dur_s, route_geojson)
    requests,       \* the HTTP requests posted so far by this call, with the provider's answer
    nearest_pus,    \* the frame returned to the UI (app.py:98)
    error           \* the exception that ended the call, "" when none

vars == <<polling_units, pc, query, pu, routes, requests, nearest_pus, error>>

---------------------------------------------------------------------------
(* Bounds of the model *)

\* largest dataset
MaxUnits == 4
\* largest n the slider offers in the model (10 in the UI)
MaxN == 2

(* Program constants *)

\* st.slider(..., 1, 10, 5): the smallest n
MinN == 1
\* nsmallest(n * 3, ...)
OversampleFactor == 3
\* float('inf'): larger than every road distance and duration
Inf == 1000000
\* r.status_code == 200
StatusOk == 200

\* latitudes and longitudes of the dataset's points
UnitLats == {8, 10}
UnitLons == {8}
\* the points a user can enter: number_input has no min/max, so out-of-range
\* coordinates reach find_nearest_polling_units
QueryPoints == {<<8, 8>>, <<9, 8>>, <<200, 8>>, <<9, 200>>}
\* (distance m, duration s) pairs a successful route can carry
RouteMetrics == {<<500, 60>>, <<800, 90>>}
\* statuses of a non-success answer
ErrorStatuses == {401}

None == [present |-> FALSE, features |-> <<>>]

Min(a, b) == IF a <= b THEN a ELSE b
Abs(x) == IF x < 0 THEN -x ELSE x
Range(s) == {s[i] : i \in DOMAIN s}

---------------------------------------------------------------------------
(* Input frames *)

Unit(i, loc) == [c \in {"id", "lat", "lon"} |->
                    IF c = "id" THEN i ELSE IF c = "lat" THEN loc[1] ELSE loc[2]]

Datasets ==
    UNION {{[i \in 1..len |-> Unit(i, locs[i])] : locs \in [1..len -> UnitLats \X UnitLons]}
           : len \in 1..MaxUnits}

ValidLat(lat) == lat >= -90 /\ lat <= 90
ValidLon(lon) == lon >= -180 /\ lon <= 180

---------------------------------------------------------------------------
(* geopy.distance.geodesic((lat, lon), (y, x)).meters                      *)
(* geopy builds a Point from each pair: longitude is wrapped into          *)
(* [-180, 180); latitude outside [-90, 90] raises ValueError (geopy 2) or  *)
(* is wrapped (geopy 1).  The distance itself is abstracted to a metric on *)
(* the degree grid, in metres.                                             *)

NormLat(lat) == IF ValidLat(lat) THEN lat ELSE ((lat + 90) % 180) - 90
NormLon(lon) == IF ValidLon(lon) THEN lon ELSE ((lon + 180) % 360) - 180

geodesic(lat, lon, y, x) ==
    1000 * (Abs(NormLat(lat) - NormLat(y)) + Abs(NormLon(lon) - NormLon(x)))

\* polling_units.apply(lambda row: geodesic(...).meters, axis=1)
Distances(df, lat, lon) ==
    [i \in DOMAIN df |-> geodesic(lat, lon, df[i]["lat"], df[i]["lon"])]

---------------------------------------------------------------------------
(* Frame operations *)

\* df[col] = vals : writes the column into the frame, in place
SetColumn(df, col, vals) ==
    [i \in DOMAIN df |->
        [c \in (DOMAIN df[i]) \cup {col} |-> IF c = col THEN vals[i] ELSE df[i][c]]]

\* faulty variant: copy() hands back the frame itself
DataFrameCopy_alias(obj) == obj
\* polling_units.copy(): the object the name pu is bound to afterwards
DataFrameCopy(obj) == "copy"

\* faulty variant: only n rows are kept (as find_closest_polling_units of app2.py does)
OverFetch_n(n) == n
\* n * 3
OverFetch(n) == n * OversampleFactor

\* faulty variant: keep="last": among equal values the later row comes first
NSmallestPos_last(df, col, i) ==
    Cardinality({j \in DOMAIN df :
        df[j][col] < df[i][col] \/ (df[j][col] = df[i][col] /\ j > i)}) + 1
\* position of row i in the stable ascending order of column col
NSmallestPos(df, col, i) ==
    Cardinality({j \in DOMAIN df :
        df[j][col] < df[i][col] \/ (df[j][col] = df[i][col] /\ j < i)}) + 1

\* df.nsmallest(k, col): the k rows with the smallest values, ascending,
\* equal values in their order in df (keep="first"); all rows when k > len
nsmallest(df, k, col) ==
    [p \in 1..Min(k, Len(df)) |->
        df[CHOOSE i \in DOMAIN df : NSmallestPos(df, col, i) = p]]

\* faulty variant: head keeps one row more
head_more(df, n) == SubSeq(df, 1, Min(n + 1, Len(df)))
\* df.head(n)
head(df, n) == SubSeq(df, 1, Min(n, Len(df)))

\* faulty variant: ascending=False
FirstInOrder_desc(df, col, S) == {i \in S : \A j \in S : df[i][col] >= df[j][col]}
\* the rows of S that may come first in an ascending order of column col
FirstInOrder(df, col, S) == {i \in S : \A j \in S : df[i][col] <= df[j][col]}

RECURSIVE SortedOrders(_, _, _)
\* the orders (sequences of row positions) of the rows S that are ascending in col
SortedOrders(df, col, S) ==
    IF S = {} THEN {<< >>}
    ELSE UNION {{<<i>> \o t : t \in SortedOrders(df, col, S \ {i})}
                : i \in FirstInOrder(df, col, S)}

\* df.sort_values(col): kind defaults to "quicksort", which does not keep rows
\* with equal keys in their input order (numpy's introsort falls back to an
\* order-keeping insertion sort only on runs of at most 16 rows; a query with
\* n >= 6 sorts 18..30 rows).  The frames of the model are shorter than that, so
\* the order among equal keys is left open: every ascending order is an outcome.
sort_values(df, col) ==
    {[p \in DOMAIN df |-> df[o[p]]] : o \in SortedOrders(df, col, DOMAIN df)}

---------------------------------------------------------------------------
(* The routing provider and get_road_route_and_distance *)

\* requests.post(ORS_DIRECTIONS_URL, json=body, headers=headers): no timeout=
RequestHasTimeout == FALSE

Feature(m, coords) == [distance |-> m[1], duration |-> m[2], coordinates |-> coords]

\* what the provider can do with one request whose body carries coords
Responses(coords) ==
    {[kind |-> "answer", status |-> StatusOk, features |-> <<Feature(m, coords)>>]
        : m \in RouteMetrics}
    \cup {[kind |-> "answer", status |-> s, features |-> << >>] : s \in ErrorStatuses}
    \cup {[kind |-> "answer", status |-> StatusOk, features |-> << >>],  \* no route in the payload
          [kind |-> "exception", status |-> 0, features |-> << >>],      \* connection error
          [kind |-> "silent", status |-> 0, features |-> << >>]}         \* never answers

\* body["coordinates"]
Coordinates(start_lat, start_lon, end_lat, end_lon) ==
    <<<<start_lon, start_lat>>, <<end_lon, end_lat>>>>

\* the outcome of get_road_route_and_distance on the provider's behaviour resp:
\* it returns (data, distance, duration), raises, or never comes back
get_road_route_and_distance(resp) ==
    IF resp.kind = "exception"
    THEN [outcome |-> "raise", exc |-> "ConnectionError", value |-> << >>]
    ELSE IF resp.kind = "silent"
    THEN IF RequestHasTimeout
         THEN [outcome |-> "raise", exc |-> "Timeout", value |-> << >>]
         ELSE [outcome |-> "block", exc |-> "", value |-> << >>]
    ELSE IF resp.status = StatusOk
    THEN IF resp.features = << >>
         THEN [outcome |-> "raise", exc |-> "IndexError", value |-> << >>]
         ELSE [outcome |-> "return", exc |-> "",
               value |-> <<[present |-> TRUE, features |-> resp.features],
                           resp.features[1].distance, resp.features[1].duration>>]
    ELSE [outcome |-> "return", exc |-> "", value |-> <<None, Inf, Inf>>]

\* faulty variant: the list is attached back to front
RouteColumn_reversed(rs, k) == [i \in DOMAIN rs |-> rs[Len(rs) + 1 - i][k]]
\* [r[k] for r in routes]
RouteColumn(rs, k) == [i \in DOMAIN rs |-> rs[i][k]]

---------------------------------------------------------------------------
(* The state machine *)

Init ==
    /\ polling_units \in Datasets
    /\ pc = "idle"
    /\ query = [lat |-> 0, lon |-> 0, n |-> 0]
    /\ pu = << >>
    /\ routes = << >>
    /\ requests = << >>
    /\ nearest_pus = << >>
    /\ error = ""

\* The button handler calls find_nearest_polling_units(lat, lon, n): step 1,
\* the geodesic filter (app.py:53-58).
Prefilter(lat, lon, n) ==
    /\ pc = "idle"
    /\ LET ref   == DataFrameCopy("polling_units")
           heap0 == [polling_units |-> polling_units, copy |-> << >>]
           heap1 == [heap0 EXCEPT ![ref] = heap0["polling_units"]]
           heap2 == [heap1 EXCEPT ![ref] =
                        SetColumn(heap1[ref], "geo_distance_m",
                                  Distances(polling_units, lat, lon))]
       IN /\ polling_units' = heap2["polling_units"]
          /\ pu' = nsmallest(heap2[ref], OverFetch(n), "geo_distance_m")
    /\ query' = [lat |-> lat, lon |-> lon, n |-> n]
    /\ pc' = "refining"
    /\ routes' = << >>
    /\ requests' = << >>
    /\ nearest_pus' = << >>
    /\ error' = ""

\* geodesic() raises ValueError on a latitude outside [-90, 90] (geopy 2): the
\* call ends at app.py:53 with nothing copied or requested.
GeodesicRaises(lat, lon, n) ==
    /\ pc = "idle"
    /\ ~ValidLat(lat)
    /\ query' = [lat |-> lat, lon |-> lon, n |-> n]
    /\ pc' = "aborted"
    /\ error' = "ValueError"
    /\ pu' = << >>
    /\ routes' = << >>
    /\ requests' = << >>
    /\ nearest_pus' = << >>
    /\ UNCHANGED polling_units

\* the row the loop of app.py:62 is at, and the request it posts
NextRow == pu[Len(routes) + 1]
NextCoordinates ==
    Coordinates(query.lat, query.lon, NextRow["lat"], NextRow["lon"])

\* One pass of the loop: the call returns and its tuple is appended.
CallReturns ==
    /\ pc = "refining"
    /\ Len(routes) < Len(pu)
    /\ \E resp \in Responses(NextCoordinates) :
       /\ LET r == get_road_route_and_distance(resp)
          IN /\ r.outcome = "return"
             /\ routes' = Append(routes,
                    <<NextRow["id"], r.value[2], r.value[3], r.value[1]>>)
       /\ requests' = Append(requests, [coordinates |-> NextCoordinates, response |-> resp])
    /\ UNCHANGED <<polling_units, pc, query, pu, nearest_pus, error>>

\* One pass of the loop: the call raises; nothing in find_nearest_polling_units
\* or in the button handler catches it, so the query ends with the exception.
CallRaises ==
    /\ pc = "refining"
    /\ Len(routes) < Len(pu)
    /\ \E resp \in Responses(NextCoordinates) :
       /\ LET r == get_road_route_and_distance(resp)
          IN /\ r.outcome = "raise"
             /\ error' = r.exc
       /\ requests' = Append(requests, [coordinates |-> NextCoordinates, response |-> resp])
    /\ pc' = "aborted"
    /\ UNCHANGED <<polling_units, query, pu, routes, nearest_pus>>

\* One pass of the loop: the call never comes back.
CallBlocks ==
    /\ pc = "refining"
    /\ Len(routes) < Len(pu)
    /\ \E resp \in Responses(NextCoordinates) :
       /\ get_road_route_and_distance(resp).outcome = "block"
       /\ requests' = Append(requests, [coordinates |-> NextCoordinates, response |-> resp])
    /\ pc' = "blocked"
    /\ UNCHANGED <<polling_units, query, pu, routes, nearest_pus, error>>

\* pu with the three route columns written (app.py:69-71)
Attached ==
    SetColumn(SetColumn(SetColumn(pu,
        "road_distance_m", RouteColumn(routes, 2)),
        "duration_s", RouteColumn(routes, 3)),
        "route_geojson", RouteColumn(routes, 4))

\* After the loop: attach the columns, sort, keep n rows, return (app.py:69-76).
Rank ==
    /\ pc = "refining"
    /\ Len(routes) = Len(pu)
    /\ pu' = Attached
    /\ \E sorted \in sort_values(Attached, "road_distance_m") :
          nearest_pus' = head(sorted, query.n)
    /\ pc' = "done"
    /\ UNCHANGED <<polling_units, query, routes, requests, error>>

\* The script run ends (results shown, or the exception shown); the next run
\* starts with fresh locals.
ScriptEnds ==
    /\ pc \in {"done", "aborted"}
    /\ pc' = "idle"
    /\ query' = [lat |-> 0, lon |-> 0, n |-> 0]
    /\ pu' = << >>
    /\ routes' = << >>
    /\ requests' = << >>
    /\ nearest_pus' = << >>
    /\ error' = ""
    /\ UNCHANGED polling_units

Next ==
    \/ \E q \in QueryPoints, n \in MinN..MaxN : Prefilter(q[1], q[2], n)
    \/ \E q \in QueryPoints, n \in MinN..MaxN : GeodesicRaises(q[1], q[2], n)
    \/ CallReturns
    \/ CallRaises
    \/ CallBlocks
    \/ Rank
    \/ ScriptEnds

Spec == Init /\ [][Next]_vars

---------------------------------------------------------------------------
(* Vocabulary of the properties *)

\* the geodesic distance from the query point to the dataset row labelled id
GeoOf(id) ==
    geodesic(query.lat, query.lon, polling_units[id]["lat"], polling_units[id]["lon"])

\* the labels of the candidates handed to the refinement
Selected == {pu[i]["id"] : i \in DOMAIN pu}

\* a provider behaviour that is not a success answer carrying a route
FailedResponse(resp) ==
    ~(resp.kind = "answer" /\ resp.status = StatusOk /\ resp.features # << >>)

ValidQuery(q) == ValidLat(q.lat) /\ ValidLon(q.lon) /\ q.n > 0

\* where a row of the result stood among the refined candidates
PosInRefined(row) == CHOOSE k \in DOMAIN pu : pu[k] = row

---------------------------------------------------------------------------
(* C1: whatever way one candidate's routing call fails (non-200 answer,     *)
(* network error, no answer, 200 answer without a route), that candidate    *)
(* gets distance = duration = +infinity and no geometry, and the query goes *)
(* on instead of aborting.                                                  *)
RoutingFailureIsolated ==
    \A j \in DOMAIN requests :
        FailedResponse(requests[j].response) =>
            /\ pc # "aborted"
            /\ Len(routes) >= j
            /\ routes[j][2] = Inf
            /\ routes[j][3] = Inf
            /\ routes[j][4] = None

(* C2: the returned frame is ascending in road distance, and every row with *)
(* the +infinity sentinel comes after every row with a finite distance.     *)
ResultSortedByRoadDistance ==
    pc = "done" =>
        /\ \A i \in 1..(Len(nearest_pus) - 1) :
              nearest_pus[i]["road_distance_m"] <= nearest_pus[i + 1]["road_distance_m"]
        /\ \A i, j \in DOMAIN nearest_pus :
              (nearest_pus[i]["road_distance_m"] = Inf
                 /\ nearest_pus[j]["road_distance_m"] < Inf) => j < i

\* a failed candidate that was first among the candidates ends behind a routed one
ResultSortedWitness ==
    /\ pc = "done"
    /\ Len(nearest_pus) >= 2
    /\ pu[1]["road_distance_m"] = Inf
    /\ nearest_pus[1]["road_distance_m"] < Inf
    /\ nearest_pus[Len(nearest_pus)]["road_distance_m"] = Inf

(* C3: the pre-filter hands exactly min(3 * n, |dataset|) candidates to the *)
(* refinement, they are rows of the dataset, and none of them is farther    *)
(* (geodesically) from the query point than a row that was left out.        *)
PrefilterOverFetch ==
    pc = "refining" =>
        /\ Len(pu) = Min(3 * query.n, Len(polling_units))
        /\ Cardinality(Selected) = Len(pu)
        /\ Selected \subseteq DOMAIN polling_units
        /\ \A i \in DOMAIN pu :
              /\ pu[i]["lat"] = polling_units[pu[i]["id"]]["lat"]
              /\ pu[i]["lon"] = polling_units[pu[i]["id"]]["lon"]
        /\ \A s \in Selected : \A u \in (DOMAIN polling_units) \ Selected :
              GeoOf(s) <= GeoOf(u)

\* the dataset is larger than 3 * n and its first row is left out as farther
PrefilterOverFetchWitness ==
    /\ pc = "refining"
    /\ Len(pu) = 3 * query.n
    /\ Len(pu) < Len(polling_units)
    /\ 1 \notin Selected
    /\ \A s \in Selected : GeoOf(s) < GeoOf(1)

(* C4: the ranking returns exactly min(n, |refined|) rows, never more than  *)
(* n; with n larger than the dataset every unit is returned, those whose    *)
(* routing failed included; and a query ends with an exception only when    *)
(* geodesic() or a routing call raised, never because of n.                 *)
RankTruncates ==
    /\ pc = "done" =>
          /\ Len(nearest_pus) = Min(query.n, Len(pu))
          /\ Len(nearest_pus) <= query.n
          /\ query.n > Len(polling_units) =>
                /\ Len(nearest_pus) = Len(polling_units)
                /\ {nearest_pus[i]["id"] : i \in DOMAIN nearest_pus} = DOMAIN polling_units
    /\ pc = "aborted" =>
          \/ requests = << >> /\ ~ValidLat(query.lat)
          \/ /\ requests # << >>
             /\ requests[Len(requests)].response.kind = "exception"
                   \/ (requests[Len(requests)].response.status = StatusOk
                         /\ requests[Len(requests)].response.features = << >>)

\* n exceeds the dataset and a unit whose routing failed is in the result
RankTruncatesWitness ==
    /\ pc = "done"
    /\ query.n > Len(polling_units)
    /\ Len(nearest_pus) = Len(polling_units)
    /\ \E i \in DOMAIN nearest_pus : nearest_pus[i]["road_distance_m"] = Inf

(* C5: a query with latitude outside [-90, 90], longitude outside           *)
(* [-180, 180] or n <= 0 is rejected with an error, and no routing request  *)
(* is issued at any point of it.                                            *)
InvalidQueryRejected ==
    (pc # "idle" /\ ~ValidQuery(query)) =>
        /\ pc = "aborted"
        /\ requests = << >>

(* C6: every routing request has a bounded timeout, so a running query can  *)
(* always go on: a call that gets no answer counts as a failure of its own  *)
(* candidate (+infinity), and the query is never left waiting.              *)
SilentCallTimesOut ==
    /\ ENABLED Next
    /\ \A j \in DOMAIN requests :
          requests[j].response.kind = "silent" =>
              Len(routes) >= j /\ routes[j][2] = Inf

(* C7: one routing request per candidate, in candidate order, from the      *)
(* query point to that candidate's point; never more requests than          *)
(* candidates; the route columns are not written before the loop is over;   *)
(* and at the end the i-th candidate carries what the i-th request gave.    *)
OneRequestPerCandidate ==
    /\ Len(routes) <= Len(requests)
    /\ Len(requests) <= Len(pu)
    /\ \A j \in DOMAIN requests :
          requests[j].coordinates =
              <<<<query.lon, query.lat>>, <<pu[j]["lon"], pu[j]["lat"]>>>>
    /\ \A j \in DOMAIN routes : routes[j][1] = pu[j]["id"]
    /\ pc = "refining" =>
          \A j \in DOMAIN pu :
              {"road_distance_m", "duration_s", "route_geojson"} \cap DOMAIN pu[j] = {}
    /\ pc = "done" =>
          /\ Len(requests) = Len(pu)
          /\ \A j \in DOMAIN pu :
                LET resp == requests[j].response
                IN IF FailedResponse(resp)
                   THEN /\ pu[j]["road_distance_m"] = Inf
                        /\ pu[j]["duration_s"] = Inf
                        /\ pu[j]["route_geojson"] = None
                   ELSE /\ pu[j]["road_distance_m"] = resp.features[1].distance
                        /\ pu[j]["duration_s"] = resp.features[1].duration
                        /\ pu[j]["route_geojson"].present
                        /\ pu[j]["route_geojson"].features = resp.features
          /\ \A i \in DOMAIN nearest_pus : nearest_pus[i] \in Range(pu)

\* three candidates refined with three different results
OneRequestPerCandidateWitness ==
    /\ pc = "done"
    /\ Len(pu) >= 3
    /\ pu[1]["road_distance_m"] = 800
    /\ pu[2]["road_distance_m"] = Inf
    /\ pu[3]["road_distance_m"] = 500

RankingStable ==
    pc = "done" =>
        \A i, j \in DOMAIN nearest_pus :
            (i < j /\ nearest_pus[i]["road_distance_m"] = nearest_pus[j]["road_distance_m"])
                => PosInRefined(nearest_pus[i]) < PosInRefined(nearest_pus[j])

(* C10: no step of any query changes the loaded collection: no row added,   *)
(* removed, moved or given a new column.                                    *)
DatasetNeverMutated == [][polling_units' = polling_units]_vars

\* a query has written its distance and route columns, one of them a failure,
\* and the collection has none of them
DatasetNeverMutatedWitness ==
    /\ pc = "done"
    /\ \E j \in DOMAIN pu : pu[j]["road_distance_m"] = Inf
    /\ \A j \in DOMAIN pu :
          {"geo_distance_m", "road_distance_m", "route_geojson"} \subseteq DOMAIN pu[j]
    /\ \A i \in DOMAIN polling_units : DOMAIN polling_units[i] = {"id", "lat", "lon"}

====
